---- MODULE Spec2Model ----
(***************************************************************************)
(* Model of the response-size admission-control guard of the SPEAR climate *)
(* chatbot: the dimension resolver (parse_time_range,                      *)
(* estimate_spatial_points), the coordinate validator / normaliser and the *)
(* admission decision (check_query_size_before_execution,                  *)
(* is_query_too_large), the size estimator (estimate_query_tokens) and the *)
(* tool dispatcher (query_mcp_tool_async).                                 *)
(*                                                                         *)
(* Python values are tagged records: None, str (a sequence of one-char     *)
(* strings), int, list.  Coordinates are fixed-point numbers counted in    *)
(* units of 1/Scale degree.  A dict is a record whose DOMAIN is the set of *)
(* keys present.                                                           *)
(***************************************************************************)
EXTENDS Integers, Sequences, FiniteSets, TLC

\* ---------------------------------------------------------------------------
\* Bounds of the model
\* ---------------------------------------------------------------------------

\* coordinate unit: one degree is Scale units (Scale = 2 admits half degrees)
Scale == 2

\* largest |time_points * lat_points * lon_points| the model evaluates
\* (the token estimate stays inside TLC's 32-bit integers)
MaxPoints == 200000000

\* chat sessions that invoke the guard at the same time
MaxSessions == 2

\* ---------------------------------------------------------------------------
\* Program constants
\* ---------------------------------------------------------------------------

SAFE_TOKEN_THRESHOLD == 100000
RESPONSE_TOKEN_RESERVE == 30000
CHARS_PER_TOKEN == 3
BYTES_PER_FLOAT32 == 4
BYTES_PER_FLOAT64 == 8
\* JSON_OVERHEAD_MULTIPLIER = 2.5, kept as the exact fraction 5/2
JSON_OVERHEAD_NUM == 5
JSON_OVERHEAD_DEN == 2
METADATA_OVERHEAD == 5000
\* current_conversation_tokens the guard passes to is_query_too_large
GUARD_CONVERSATION_TOKENS == 15000
\* worst-case span (years) and the per-year counts of parse_time_range
SPAN_YEARS == 251
MONTHS_PER_YEAR == 12
DAYS_PER_YEAR == 365
DAYS_PER_MONTH_APPROX == 30
PARSE_FALLBACK == 1000
GLOBAL_LAT_POINTS == 180
GLOBAL_LON_POINTS == 360

\* ---------------------------------------------------------------------------
\* Python values
\* ---------------------------------------------------------------------------

None == [kind |-> "None"]
PyStr(chars) == [kind |-> "str", chars |-> chars]
PyInt(n) == [kind |-> "int", val |-> n]
PyList(v) == [kind |-> "list", v |-> v]

\* Python truthiness, as `not x` evaluates it
Truthy(x) ==
    CASE x.kind = "None" -> FALSE
      [] x.kind = "str" -> Len(x.chars) > 0
      [] x.kind = "int" -> x.val # 0
      [] OTHER -> TRUE

\* a dict with no keys
NoDict == [k \in {} |-> None]

\* dict.get(key, default)
Get(d, key, default) == IF key \in DOMAIN d THEN d[key] ELSE default

Abs(x) == IF x < 0 THEN -x ELSE x
Max(a, b) == IF a >= b THEN a ELSE b

\* ---------------------------------------------------------------------------
\* datetime.strptime for the two formats parse_time_range uses
\* ---------------------------------------------------------------------------

DigitSeq == <<"0", "1", "2", "3", "4", "5", "6", "7", "8", "9">>
Digits == {DigitSeq[i] : i \in 1..10}
DigitVal(c) == (CHOOSE i \in 1..10 : DigitSeq[i] = c) - 1

ParseError == [ok |-> FALSE]

\* %m : 1[0-2] | 0[1-9] | [1-9]; 0 when the text is no month
MonthOf(t) ==
    IF Len(t) = 1 /\ t[1] \in Digits /\ t[1] # "0" THEN DigitVal(t[1])
    ELSE IF Len(t) = 2 /\ t[1] \in Digits /\ t[2] \in Digits
         THEN LET v == 10 * DigitVal(t[1]) + DigitVal(t[2])
              IN IF v >= 1 /\ v <= 12 THEN v ELSE 0
         ELSE 0

\* %d : 3[01] | [12]\d | 0[1-9] | [1-9] | " "[1-9]; 0 when the text is no day
DayOf(t) ==
    IF Len(t) = 1 /\ t[1] \in Digits /\ t[1] # "0" THEN DigitVal(t[1])
    ELSE IF Len(t) = 2 /\ t[1] = " " /\ t[2] \in Digits /\ t[2] # "0"
         THEN DigitVal(t[2])
    ELSE IF Len(t) = 2 /\ t[1] \in Digits /\ t[2] \in Digits
         THEN LET v == 10 * DigitVal(t[1]) + DigitVal(t[2])
              IN IF v >= 1 /\ v <= 31 THEN v ELSE 0
         ELSE 0

\* %Y : exactly four digits; -1 when the text does not start with them
YearOf(s) ==
    IF Len(s) >= 4 /\ \A i \in 1..4 : s[i] \in Digits
    THEN 1000 * DigitVal(s[1]) + 100 * DigitVal(s[2])
         + 10 * DigitVal(s[3]) + DigitVal(s[4])
    ELSE -1

IsLeap(y) == (y % 4 = 0 /\ y % 100 # 0) \/ y % 400 = 0

DaysInMonth(y, m) ==
    IF m = 2 THEN (IF IsLeap(y) THEN 29 ELSE 28)
    ELSE IF m \in {4, 6, 9, 11} THEN 30 ELSE 31

\* datetime.strptime(s, "%Y-%m"); a non-str argument is a TypeError
StrptimeYM(x) ==
    IF x.kind # "str" THEN ParseError
    ELSE LET s == x.chars
             y == YearOf(s)
         IN IF y < 1 \/ Len(s) < 6 \/ s[5] # "-" THEN ParseError
            ELSE LET m == MonthOf(SubSeq(s, 6, Len(s)))
                 IN IF m = 0 THEN ParseError
                    ELSE [ok |-> TRUE, year |-> y, month |-> m, day |-> 1]

\* datetime.strptime(s, "%Y-%m-%d"); a non-str argument is a TypeError
StrptimeYMD(x) ==
    IF x.kind # "str" THEN ParseError
    ELSE LET s == x.chars
             y == YearOf(s)
             n == Len(s)
             \* positions of the second "-" that leave a month before it
             seps == {i \in 7..8 : i < n /\ s[i] = "-"
                                   /\ MonthOf(SubSeq(s, 6, i - 1)) # 0
                                   /\ DayOf(SubSeq(s, i + 1, n)) # 0}
         IN IF y < 1 \/ n < 8 \/ s[5] # "-" \/ seps = {} THEN ParseError
            ELSE LET i == CHOOSE j \in seps : TRUE
                     m == MonthOf(SubSeq(s, 6, i - 1))
                     d == DayOf(SubSeq(s, i + 1, n))
                 IN IF d > DaysInMonth(y, m) THEN ParseError
                    ELSE [ok |-> TRUE, year |-> y, month |-> m, day |-> d]

\* ---------------------------------------------------------------------------
\* Dimension resolver
\* ---------------------------------------------------------------------------

\* mutant: the worst case covers the historical run only (165 years)
WorstCaseTimePoints_HistoricalOnly(frequency) ==
    IF frequency = "day" THEN 165 * DAYS_PER_YEAR ELSE 165 * MONTHS_PER_YEAR

\* count for a missing bound: the full historical + SSP5-85 span
WorstCaseTimePoints(frequency) ==
    IF frequency = "Amon" THEN SPAN_YEARS * MONTHS_PER_YEAR
    ELSE IF frequency = "day" THEN SPAN_YEARS * DAYS_PER_YEAR
    ELSE SPAN_YEARS * MONTHS_PER_YEAR

\* the two strptime calls of the try block; len() of a non-str raises
ParseBoth(start_date, end_date) ==
    IF start_date.kind # "str" THEN <<ParseError, ParseError>>
    ELSE IF Len(start_date.chars) = 7
         THEN <<StrptimeYM(start_date), StrptimeYM(end_date)>>
         ELSE <<StrptimeYMD(start_date), StrptimeYMD(end_date)>>

\* mutant: the end month is not counted
TotalMonths_Exclusive(start, end) ==
    (end.year - start.year) * 12 + (end.month - start.month)

TotalMonths(start, end) ==
    (end.year - start.year) * 12 + (end.month - start.month) + 1

\* the count once both dates have parsed
CountTimePoints(start, end, frequency) ==
    IF frequency = "Amon" THEN TotalMonths(start, end)
    ELSE IF frequency = "day" THEN TotalMonths(start, end) * DAYS_PER_MONTH_APPROX
    ELSE TotalMonths(start, end)

\* mutant: the worst case is taken only when both bounds are missing
parse_time_range_BothMissing(start_date, end_date, frequency) ==
    IF ~Truthy(start_date) /\ ~Truthy(end_date)
    THEN WorstCaseTimePoints(frequency)
    ELSE CHOOSE time_points \in
             {IF ~p[1].ok \/ ~p[2].ok THEN PARSE_FALLBACK
              ELSE CountTimePoints(p[1], p[2], frequency) :
                  p \in {ParseBoth(start_date, end_date)}} : TRUE

\* mutant: a parse failure counts as no time points
parse_time_range_FailureIsZero(start_date, end_date, frequency) ==
    IF ~Truthy(start_date) \/ ~Truthy(end_date)
    THEN WorstCaseTimePoints(frequency)
    ELSE CHOOSE time_points \in
             {IF ~p[1].ok \/ ~p[2].ok THEN 0
              ELSE CountTimePoints(p[1], p[2], frequency) :
                  p \in {ParseBoth(start_date, end_date)}} : TRUE

parse_time_range(start_date, end_date, frequency) ==
    IF ~Truthy(start_date) \/ ~Truthy(end_date)
    THEN WorstCaseTimePoints(frequency)
    ELSE CHOOSE time_points \in
             {IF ~p[1].ok \/ ~p[2].ok THEN PARSE_FALLBACK
              ELSE CountTimePoints(p[1], p[2], frequency) :
                  p \in {ParseBoth(start_date, end_date)}} : TRUE

\* mutant: a range narrower than one degree counts no grid point
RangePoints_NoClamp(r) == Abs(r.v[2] - r.v[1]) \div Scale

\* int(abs(r[1] - r[0]) / 1.0), floored to whole degrees, at least 1
RangePoints(r) == Max(1, Abs(r.v[2] - r.v[1]) \div Scale)

estimate_spatial_points(lat_range, lon_range) ==
    IF lat_range = None \/ lon_range = None
    THEN <<GLOBAL_LAT_POINTS, GLOBAL_LON_POINTS>>
    ELSE <<RangePoints(lat_range), RangePoints(lon_range)>>

\* ---------------------------------------------------------------------------
\* Size estimator
\* ---------------------------------------------------------------------------

estimate_data_array_size(time_points, lat_points, lon_points, dtype) ==
    (time_points * lat_points * lon_points)
        * (IF dtype = "float64" THEN BYTES_PER_FLOAT64 ELSE BYTES_PER_FLOAT32)

\* int(raw_bytes * 2.5), written so that no intermediate exceeds the result
ScaleByOverhead(raw_bytes) ==
    LET a == Abs(raw_bytes)
        q == (a \div JSON_OVERHEAD_DEN) * JSON_OVERHEAD_NUM
             + ((a % JSON_OVERHEAD_DEN) * JSON_OVERHEAD_NUM) \div JSON_OVERHEAD_DEN
    IN IF raw_bytes >= 0 THEN q ELSE -q

\* mutant: the flat metadata overhead is never added
estimate_json_size_NoMetadata(raw_bytes, include_metadata) == ScaleByOverhead(raw_bytes)

estimate_json_size(raw_bytes, include_metadata) ==
    ScaleByOverhead(raw_bytes)
        + (IF include_metadata THEN METADATA_OVERHEAD ELSE 0)

\* mutant: remainder for quotient (% for //)
estimate_tokens_from_bytes_Remainder(size_bytes) == size_bytes % CHARS_PER_TOKEN

estimate_tokens_from_bytes(size_bytes) == size_bytes \div CHARS_PER_TOKEN

estimate_query_tokens(time_points, lat_points, lon_points) ==
    estimate_tokens_from_bytes(
        estimate_json_size(
            estimate_data_array_size(time_points, lat_points, lon_points, "float32"),
            TRUE))

\* ---------------------------------------------------------------------------
\* Admission decision
\* ---------------------------------------------------------------------------

TotalTokens(estimated_tokens, current_conversation_tokens) ==
    current_conversation_tokens + estimated_tokens + RESPONSE_TOKEN_RESERVE

\* mutant: the boundary total is denied (>= for >)
ExceedsThreshold_AtOrAbove(total_tokens) == total_tokens >= SAFE_TOKEN_THRESHOLD

ExceedsThreshold(total_tokens) == total_tokens > SAFE_TOKEN_THRESHOLD

is_query_too_large(time_points, lat_points, lon_points, current_conversation_tokens) ==
    LET estimated_tokens == estimate_query_tokens(time_points, lat_points, lon_points)
        total_tokens == TotalTokens(estimated_tokens, current_conversation_tokens)
    IN [is_too_large |-> ExceedsThreshold(total_tokens),
        estimated_tokens |-> estimated_tokens,
        total_tokens |-> total_tokens]

\* ---------------------------------------------------------------------------
\* Alternatives offered with a denial
\* ---------------------------------------------------------------------------

\* an entry's description is kept as the numbers it writes, its example and
\* code_example as the query parameters they write

\* mutant: a request of exactly 12 time steps is offered a reduction (>= for >)
ReduceTimeRange_AtTwelve(time_points, lat_points, lon_points) ==
    IF time_points >= 12
    THEN <<[approach |-> "Reduce time range",
            description |-> <<Max(12, time_points \div 2), time_points>>,
            estimated_tokens |->
                estimate_query_tokens(Max(12, time_points \div 2), lat_points, lon_points)]>>
    ELSE <<>>

\* Suggestion 1, or nothing
ReduceTimeRange(time_points, lat_points, lon_points) ==
    IF time_points > 12
    THEN <<[approach |-> "Reduce time range",
            description |-> <<Max(12, time_points \div 2), time_points>>,
            estimated_tokens |->
                estimate_query_tokens(Max(12, time_points \div 2), lat_points, lon_points)]>>
    ELSE <<>>

\* Suggestion 2, or nothing
ReduceSpatialCoverage(time_points, lat_points, lon_points) ==
    IF lat_points > 10 \/ lon_points > 10
    THEN <<[approach |-> "Reduce spatial coverage",
            description |-> <<Max(5, lat_points \div 2), Max(5, lon_points \div 2),
                              lat_points, lon_points>>,
            estimated_tokens |->
                estimate_query_tokens(time_points, Max(5, lat_points \div 2),
                                      Max(5, lon_points \div 2))]>>
    ELSE <<>>

\* Suggestion 3
SpatialAverage(time_points, variable) ==
    <<[approach |-> "Request spatial average",
       description |-> <<>>,
       example |-> <<variable>>,
       estimated_tokens |-> time_points * 100]>>

\* Suggestion 4, or nothing
MonthlyAverages(time_points, lat_points, lon_points) ==
    IF time_points > 365
    THEN <<[approach |-> "Use monthly averages instead of daily",
            description |-> <<time_points \div 30>>,
            estimated_tokens |->
                estimate_query_tokens(time_points \div 30, lat_points, lon_points)]>>
    ELSE <<>>

\* Suggestion 5
DownloadProgrammatically(variable, scenario, ensemble) ==
    <<[approach |-> "Download data programmatically",
       description |-> <<>>,
       code_example |-> <<scenario, variable, ensemble>>,
       estimated_tokens |-> 0]>>

\* mutant: the spatial average is appended before the spatial reduction
suggest_alternatives_AverageFirst(time_points, lat_points, lon_points, variable, scenario, ensemble) ==
    [problem |-> <<time_points, lat_points, lon_points,
                   time_points * lat_points * lon_points>>,
     alternatives |->
         ReduceTimeRange(time_points, lat_points, lon_points)
         \o SpatialAverage(time_points, variable)
         \o ReduceSpatialCoverage(time_points, lat_points, lon_points)
         \o MonthlyAverages(time_points, lat_points, lon_points)
         \o DownloadProgrammatically(variable, scenario, ensemble)]

suggest_alternatives(time_points, lat_points, lon_points, variable, scenario, ensemble) ==
    [problem |-> <<time_points, lat_points, lon_points,
                   time_points * lat_points * lon_points>>,
     alternatives |->
         ReduceTimeRange(time_points, lat_points, lon_points)
         \o ReduceSpatialCoverage(time_points, lat_points, lon_points)
         \o SpatialAverage(time_points, variable)
         \o MonthlyAverages(time_points, lat_points, lon_points)
         \o DownloadProgrammatically(variable, scenario, ensemble)]

\* ---------------------------------------------------------------------------
\* The guard: validate, normalise, resolve the shape, decide
\* ---------------------------------------------------------------------------

AMON == PyStr(<<"A", "m", "o", "n">>)
DAY == PyStr(<<"d", "a", "y">>)

\* defaults of the tool_input.get calls for the text-only parameters
UNKNOWN_VARIABLE == PyStr(<<"u", "n", "k", "n", "o", "w", "n">>)
DEFAULT_SCENARIO == PyStr(<<"s", "c", "e", "n", "a", "r", "i", "o", "S", "S", "P", "5", "-", "8", "5">>)
DEFAULT_ENSEMBLE == PyStr(<<"r", "1", "5", "i", "1", "p", "1", "f", "1">>)

Deg(d) == d * Scale

\* frequency == "Amon" / "day", as parse_time_range compares it
FrequencyName(f) == IF f = AMON THEN "Amon" ELSE IF f = DAY THEN "day" ELSE "other"

LatitudeOutOfBounds(lat_range) ==
    lat_range.v[1] < Deg(-90) \/ lat_range.v[2] > Deg(90)

\* mutant: a zero-height range passes (> for >=)
LatitudeNotIncreasing_Strict(lat_range) == lat_range.v[1] > lat_range.v[2]

LatitudeNotIncreasing(lat_range) == lat_range.v[1] >= lat_range.v[2]

\* mutant: one negative endpoint shifts both endpoints
ConvertLongitude_Together(lon_range) ==
    LET shift == IF lon_range.v[1] < 0 \/ lon_range.v[2] < 0 THEN Deg(360) ELSE 0
    IN PyList(<<lon_range.v[1] + shift, lon_range.v[2] + shift>>)

\* mutant: an endpoint of 0 is shifted too (<= for <)
ConvertLongitude_ShiftsZero(lon_range) ==
    PyList(<<IF lon_range.v[1] <= 0 THEN lon_range.v[1] + Deg(360) ELSE lon_range.v[1],
             IF lon_range.v[2] <= 0 THEN lon_range.v[2] + Deg(360) ELSE lon_range.v[2]>>)

\* negative endpoints shifted by +360, each on its own
ConvertLongitude(lon_range) ==
    PyList(<<IF lon_range.v[1] < 0 THEN lon_range.v[1] + Deg(360) ELSE lon_range.v[1],
             IF lon_range.v[2] < 0 THEN lon_range.v[2] + Deg(360) ELSE lon_range.v[2]>>)

\* mutant: an endpoint of exactly 360 fails (>= for >)
LongitudeOutOfBounds_AtOrAbove(converted) ==
    converted.v[1] >= Deg(360) \/ converted.v[2] >= Deg(360)

LongitudeOutOfBounds(converted) ==
    converted.v[1] > Deg(360) \/ converted.v[2] > Deg(360)

\* mutant: the dict is replaced by one holding lon_range only
StoreLonRange_OnlyKey(tool_input, converted) == "lon_range" :> converted

\* tool_input["lon_range"] = [min_lon, max_lon]
StoreLonRange(tool_input, converted) == ("lon_range" :> converted) @@ tool_input

NoLocals == [estimated |-> FALSE]

\* the ranges the shape is resolved from: the locals read at the top
SpatialArguments(tool_input) ==
    <<Get(tool_input, "lat_range", None), Get(tool_input, "lon_range", None)>>

\* (time_points, lat_points, lon_points) of the "Calculate dimensions" step
ResolveShape(tool_input) ==
    LET sp == SpatialArguments(tool_input)
        pts == estimate_spatial_points(sp[1], sp[2])
    IN [time_points |-> parse_time_range(Get(tool_input, "start_date", None),
                                         Get(tool_input, "end_date", None),
                                         FrequencyName(Get(tool_input, "frequency", AMON))),
        lat_points |-> pts[1],
        lon_points |-> pts[2]]

\* an exception that leaves the function instead of a return value
Raised(exception) == [kind |-> "raise", exception |-> exception]

\* min_x, max_x = range: anything but two values raises ValueError
UnpackFails(range) == Len(range.v) # 2

\* mutant: the latitude failure is raised instead of returned
LatitudeError_Raised(lat_range) == Raised("ValueError")

LatitudeError(lat_range) ==
    [status |-> "error", error |-> "Invalid latitude range",
     shown |-> lat_range.v]

LongitudeError(converted) ==
    [status |-> "error", error |-> "Invalid longitude range",
     shown |-> converted.v]

TooLargeError(shape, estimated_tokens, tool_input) ==
    [status |-> "error",
     error |-> "Query too large - response would exceed token limits",
     estimated_tokens |-> estimated_tokens,
     data_shape |-> [time_points |-> shape.time_points,
                     lat_points |-> shape.lat_points,
                     lon_points |-> shape.lon_points,
                     total_data_points |->
                         shape.time_points * shape.lat_points * shape.lon_points],
     suggestions |->
         suggest_alternatives(shape.time_points, shape.lat_points, shape.lon_points,
                              Get(tool_input, "variable", UNKNOWN_VARIABLE),
                              Get(tool_input, "scenario", DEFAULT_SCENARIO),
                              Get(tool_input, "ensemble_member", DEFAULT_ENSEMBLE))]

\* mutant: the decision is ignored and every request is allowed
SizeOutcome_AlwaysAllows(shape, d, after) ==
    [ret |-> None,
     tool_input |-> after,
     locals |-> [estimated |-> TRUE,
                 time_points |-> shape.time_points,
                 lat_points |-> shape.lat_points,
                 lon_points |-> shape.lon_points,
                 estimated_tokens |-> d.estimated_tokens,
                 is_too_large |-> d.is_too_large]]

\* the size check proper, after validation: lines 224-266
SizeOutcome(shape, d, after) ==
    [ret |-> IF d.is_too_large THEN TooLargeError(shape, d.estimated_tokens, after)
             ELSE None,
     tool_input |-> after,
     locals |-> [estimated |-> TRUE,
                 time_points |-> shape.time_points,
                 lat_points |-> shape.lat_points,
                 lon_points |-> shape.lon_points,
                 estimated_tokens |-> d.estimated_tokens,
                 is_too_large |-> d.is_too_large]]

DecideSize(tool_input, after) ==
    CHOOSE outcome \in
        {SizeOutcome(shape, d, after) :
            <<shape, d>> \in
                {<<sh, is_query_too_large(sh.time_points, sh.lat_points,
                                          sh.lon_points, GUARD_CONVERSATION_TOKENS)>> :
                    sh \in {ResolveShape(tool_input)}}} : TRUE

\* returns the value returned, the caller's dict afterwards and the locals
check_query_size_before_execution(tool_input) ==
    LET lat_range == Get(tool_input, "lat_range", None)
        lon_range == Get(tool_input, "lon_range", None)
    IN IF lat_range # None /\ UnpackFails(lat_range)
       THEN [ret |-> Raised("ValueError"), tool_input |-> tool_input,
             locals |-> NoLocals]
       ELSE IF lat_range # None /\ LatitudeOutOfBounds(lat_range)
       THEN [ret |-> LatitudeError(lat_range), tool_input |-> tool_input,
             locals |-> NoLocals]
       ELSE IF lat_range # None /\ LatitudeNotIncreasing(lat_range)
       THEN [ret |-> LatitudeError(lat_range), tool_input |-> tool_input,
             locals |-> NoLocals]
       ELSE IF lon_range # None /\ UnpackFails(lon_range)
       THEN [ret |-> Raised("ValueError"), tool_input |-> tool_input,
             locals |-> NoLocals]
       ELSE IF lon_range # None
       THEN LET converted == ConvertLongitude(lon_range)
                after == StoreLonRange(tool_input, converted)
            IN IF LongitudeOutOfBounds(converted)
               THEN [ret |-> LongitudeError(converted), tool_input |-> after,
                     locals |-> NoLocals]
               ELSE DecideSize(tool_input, after)
       ELSE DecideSize(tool_input, tool_input)

\* ---------------------------------------------------------------------------
\* Tool dispatch
\* ---------------------------------------------------------------------------

AVAILABLE_TOOLS ==
    <<[name |-> "create_plot", function |-> TRUE],
      [name |-> "browse_spear_directory", mcp_tool |-> TRUE],
      [name |-> "search_spear_variables", mcp_tool |-> TRUE],
      [name |-> "get_s3_file_metadata_only", mcp_tool |-> TRUE],
      [name |-> "query_netcdf_data", mcp_tool |-> TRUE]>>

\* the first entry of AVAILABLE_TOOLS with this name, 0 when there is none
FindTool(tool_name) ==
    LET hits == {i \in 1..Len(AVAILABLE_TOOLS) : AVAILABLE_TOOLS[i].name = tool_name}
    IN IF hits = {} THEN 0 ELSE CHOOSE i \in hits : \A j \in hits : i <= j

\* the server's own error text, as f"MCP server error: {result['error']}"
ServerErrorText(outcome) ==
    CASE outcome = "too_large" -> "MCP server error: Query too large"
      [] outcome = "latitude" -> "MCP server error: Invalid latitude range"
      [] outcome = "longitude" -> "MCP server error: Invalid longitude range"
      [] OTHER -> "MCP server error"

\* call_mcp_server: the request reaches the server, which answers, cannot be
\* reached, or answers with an error of its own
CallMcpServer(tool_name, outcome) ==
    IF outcome = "ok" THEN [status |-> "ok", tool |-> tool_name]
    ELSE IF outcome = "error"
    THEN [status |-> "error", error |-> "Failed to connect to MCP server"]
    ELSE [status |-> "error", error |-> ServerErrorText(outcome)]

\* tool_func(**tool_input) and the except clause around it
RunLocalTool(tool_name, outcome) ==
    IF outcome = "ok" THEN [status |-> "ok", tool |-> tool_name]
    ELSE [status |-> "error", error |-> "Failed to execute tool"]

\* the local-tool half of the dispatcher: lines 479-516
DispatchLocal(tool_name, tool_input, tool_config, outcome) ==
    IF ~Get(tool_config, "function", FALSE)
    THEN [result |-> [status |-> "error", error |-> "No function defined for tool"],
          calls |-> <<>>, tool_input |-> tool_input]
    ELSE IF tool_name = "query_netcdf_data"
    THEN LET g == check_query_size_before_execution(tool_input)
         IN IF g.ret # None
            THEN [result |-> g.ret,
                  calls |-> <<"check_query_size_before_execution">>,
                  tool_input |-> g.tool_input]
            ELSE [result |-> RunLocalTool(tool_name, outcome),
                  calls |-> <<"check_query_size_before_execution", "tool_func">>,
                  tool_input |-> g.tool_input]
    ELSE [result |-> RunLocalTool(tool_name, outcome),
          calls |-> <<"tool_func">>, tool_input |-> tool_input]

\* result returned, the calls made in order, and the caller's dict afterwards
query_mcp_tool_async(tool_name, tool_input, outcome) ==
    LET i == FindTool(tool_name)
    IN IF i = 0
       THEN [result |-> [status |-> "error", error |-> "Unknown tool"],
             calls |-> <<>>, tool_input |-> tool_input]
       ELSE IF Get(AVAILABLE_TOOLS[i], "mcp_tool", FALSE)
       THEN [result |-> CallMcpServer(tool_name, outcome),
             calls |-> <<"call_mcp_server">>, tool_input |-> tool_input]
       ELSE DispatchLocal(tool_name, tool_input, AVAILABLE_TOOLS[i], outcome)

\* ---------------------------------------------------------------------------
\* Inputs
\* ---------------------------------------------------------------------------

Fmt2(n) == <<DigitSeq[((n \div 10) % 10) + 1], DigitSeq[(n % 10) + 1]>>
Fmt4(n) == Fmt2(n \div 100) \o Fmt2(n % 100)
\* "YYYY-MM" and "YYYY-MM-DD" texts
YM(y, m) == PyStr(Fmt4(y) \o <<"-">> \o Fmt2(m))
YMD(y, m, d) == PyStr(Fmt4(y) \o <<"-">> \o Fmt2(m) \o <<"-">> \o Fmt2(d))

\* texts that are dates in neither form, or not dates at all
BadMonthText == PyStr(Fmt4(2020) \o <<"-", "1", "3">>)
ShortMonthText == PyStr(Fmt4(2020) \o <<"-", "3">>)
ShortDayText == PyStr(Fmt4(2020) \o <<"-", "3", "-", "5">>)
YearZeroText == PyStr(Fmt4(0) \o <<"-", "0", "1">>)
WordsText == PyStr(<<"J", "a", "n", " ", "2", "0", "2", "0">>)
EmptyText == PyStr(<<>>)

\* the supported span of the dataset: 1850-01 .. 2100-12
SpanFirstYear == 1850
SpanLastYear == 2100

DateValues ==
    {None, EmptyText, PyInt(0), PyInt(2020),
     YM(SpanFirstYear, 1), YM(2020, 1), YM(2020, 12), YM(2021, 12),
     YM(SpanLastYear, 12),
     YMD(SpanFirstYear, 1, 1), YMD(2020, 1, 1), YMD(2021, 12, 31),
     YMD(SpanLastYear, 12, 31), YMD(2021, 2, 29),
     BadMonthText, ShortMonthText, ShortDayText, YearZeroText, WordsText}

Frequencies == {AMON, DAY, PyStr(<<"O", "m", "o", "n">>)}

\* start/end pairs the guard is exercised with
DatePairs ==
    {<<None, None>>, <<YM(2020, 1), None>>, <<EmptyText, YM(2020, 12)>>,
     <<YM(2020, 1), YM(2020, 1)>>, <<YM(2020, 1), YM(2020, 12)>>,
     <<YM(SpanFirstYear, 1), YM(SpanLastYear, 12)>>,
     <<YMD(SpanFirstYear, 1, 1), YMD(SpanLastYear, 12, 31)>>,
     <<YMD(2020, 1, 1), YMD(2021, 12, 31)>>,
     <<YM(2020, 12), YM(2020, 1)>>,
     <<YM(2020, 1), YMD(2020, 12, 31)>>,
     <<BadMonthText, YM(2020, 12)>>}

LatRanges ==
    {None, PyList(<<Deg(10), Deg(20)>>), PyList(<<Deg(10), Deg(20) + 1>>),
     PyList(<<Deg(-90), Deg(90)>>), PyList(<<Deg(-100), Deg(20)>>),
     PyList(<<Deg(20), Deg(10)>>), PyList(<<Deg(10), Deg(10)>>),
     PyList(<<Deg(10), Deg(90) + 1>>)}

LonRanges ==
    {None, PyList(<<Deg(10), Deg(20)>>), PyList(<<Deg(-140), Deg(-50)>>),
     PyList(<<Deg(-10), Deg(30)>>), PyList(<<Deg(0), Deg(360)>>),
     PyList(<<Deg(10), Deg(400)>>), PyList(<<Deg(-500), Deg(20)>>),
     PyList(<<Deg(-10), Deg(400)>>), PyList(<<Deg(10), Deg(10) + 1>>)}

\* ranges estimate_spatial_points is called with, zero-width ones included
SpatialRangeValues == LatRanges \cup LonRanges

Absent == [kind |-> "absent"]

\* a key of a dict literal, left out when no value is given for it
Entry(key, value) == IF value = Absent THEN NoDict ELSE key :> value

ToolInput(start_date, end_date, lat_range, lon_range, frequency) ==
    Entry("start_date", start_date) @@ Entry("end_date", end_date)
        @@ Entry("lat_range", lat_range) @@ Entry("lon_range", lon_range)
        @@ Entry("frequency", frequency)
        @@ Entry("variable", PyStr(<<"t", "a", "s">>))

\* the product of the resolved counts stays within MaxPoints
Fits(tool_input) ==
    LET shape == ResolveShape(tool_input)
    IN shape.lat_points * shape.lon_points
           <= MaxPoints \div Max(1, Abs(shape.time_points))

ToolInputs ==
    {t \in {ToolInput(dp[1], dp[2], lat, lon, f) :
                dp \in DatePairs, lat \in LatRanges, lon \in LonRanges,
                f \in Frequencies \cup {Absent}}
            \cup {ToolInput(Absent, Absent, Absent, Absent, f) : f \in Frequencies \cup {Absent}} :
        Fits(t)}

\* ranges that are not two-element sequences
MalformedRanges ==
    {PyList(<<Deg(10)>>), PyList(<<Deg(10), Deg(20), Deg(30)>>)}

\* requests with a range outside the input schema
MalformedInputs ==
    {ToolInput(YM(2020, 1), YM(2020, 12), r[1], r[2], AMON) :
        r \in {x \in ({None, PyList(<<Deg(10), Deg(20)>>), PyList(<<Deg(20), Deg(10)>>)}
                          \cup MalformedRanges)
                     \X ({None, PyList(<<Deg(10), Deg(20)>>)} \cup MalformedRanges) :
                  x[1] \in MalformedRanges \/ x[2] \in MalformedRanges}}

\* the spec's two worked examples: a year of monthly data over a 10 x 10
\* degree region, and a query with no dates and no ranges
SmallRegionalRequest ==
    ToolInput(YM(2020, 1), YM(2020, 12), PyList(<<Deg(10), Deg(20)>>),
              PyList(<<Deg(10), Deg(20)>>), AMON)

UnconstrainedRequest == ToolInput(Absent, Absent, Absent, Absent, Absent)

ToolNames ==
    {AVAILABLE_TOOLS[i].name : i \in 1..Len(AVAILABLE_TOOLS)} \cup {"delete_everything"}

TimePointValues == {0, 1, 12, 13, 960, 3012}
LatPointValues == {1, 10, 11, 180}
LonPointValues == {1, 10, 360}

\* shapes suggest_alternatives is called with: either side of each condition
\* (12, 10, 10, 365), the halving floors, and the denied global monthly query
AlternativeShapes ==
    {sh \in ({0, 1, 12, 13, 24, 26, 365, 366, 960, 3012, 91615}
                \X {1, 9, 10, 11, 180} \X {1, 10, 11, 360}) :
        sh[2] * sh[3] <= MaxPoints \div Max(1, sh[1])}

\* the query parameters of the module's own test call
TestParameters ==
    <<PyStr(<<"t", "a", "s">>), PyStr(<<"h", "i", "s", "t", "o", "r", "i", "c", "a", "l">>), PyStr(<<"r", "1", "i", "1", "p", "1", "f", "1">>)>>

\* conversation sizes: empty, the guard's figure, and the two sizes either
\* side of the admission boundary for the shape at hand
ConversationTokens(time_points, lat_points, lon_points) ==
    LET room == SAFE_TOKEN_THRESHOLD - RESPONSE_TOKEN_RESERVE
                - estimate_query_tokens(time_points, lat_points, lon_points)
    IN {0, GUARD_CONVERSATION_TOKENS} \cup (IF room >= 0 THEN {room, room + 1} ELSE {})

\* ---------------------------------------------------------------------------
\* State
\* ---------------------------------------------------------------------------

VARIABLES
    op,          \* the operation that ran last, "none" between calls
    tool_name,   \* query_mcp_tool: the tool asked for
    request,     \* the dict as the caller built it
    tool_input,  \* the caller's dict after the call
    result,      \* the value returned to the caller
    calls,       \* query_mcp_tool: the calls made, in order
    locals,      \* the guard's resolved shape and estimate
    args,        \* arguments of a direct call to a pure function
    ret,         \* its return value
    sessions,    \* per chat session: the guard invocation in progress
    chat         \* one chat session's user turn: history and loop state

vars ==
    <<op, tool_name, request, tool_input, result, calls, locals, args, ret,
      sessions, chat>>

\* no guard invocation is followed step by step, no user turn is under way
NoSessions == <<>>
NoChat == [pc |-> "none"]

Init ==
    /\ op = "none"
    /\ tool_name = ""
    /\ request = NoDict
    /\ tool_input = NoDict
    /\ result = None
    /\ calls = <<>>
    /\ locals = NoLocals
    /\ args = <<>>
    /\ ret = None
    /\ sessions = NoSessions
    /\ chat = NoChat

\* chatbot_app: result = query_mcp_tool(tool_name, tool_input)
QueryMcpTool ==
    /\ op = "none"
    /\ \E name \in ToolNames, input \in ToolInputs, outcome \in {"ok", "error"} :
           \E r \in {query_mcp_tool_async(name, input, outcome)} :
              /\ op' = "query_mcp_tool"
              /\ tool_name' = name
              /\ request' = input
              /\ tool_input' = r.tool_input
              /\ result' = r.result
              /\ calls' = r.calls
    /\ UNCHANGED <<locals, args, ret, sessions, chat>>

\* a call of the guard entry point on a request
CheckQuerySize ==
    /\ op = "none"
    /\ \E input \in ToolInputs \cup MalformedInputs :
           \E g \in {check_query_size_before_execution(input)} :
              /\ op' = "check_query_size_before_execution"
              /\ request' = input
              /\ tool_input' = g.tool_input
              /\ result' = g.ret
              /\ locals' = g.locals
    /\ UNCHANGED <<tool_name, calls, args, ret, sessions, chat>>

\* a call of parse_time_range
ParseTimeRange ==
    /\ op = "none"
    /\ \E s \in DateValues, e \in DateValues, f \in Frequencies :
           /\ op' = "parse_time_range"
           /\ args' = <<s, e, f>>
           /\ ret' = PyInt(parse_time_range(s, e, FrequencyName(f)))
    /\ UNCHANGED <<tool_name, request, tool_input, result, calls, locals, sessions, chat>>

\* a call of estimate_query_tokens
EstimateQueryTokens ==
    /\ op = "none"
    /\ \E t \in TimePointValues, la \in LatPointValues, lo \in LonPointValues :
           /\ op' = "estimate_query_tokens"
           /\ args' = <<t, la, lo>>
           /\ ret' = PyInt(estimate_query_tokens(t, la, lo))
    /\ UNCHANGED <<tool_name, request, tool_input, result, calls, locals, sessions, chat>>

\* a call of estimate_spatial_points
EstimateSpatialPoints ==
    /\ op = "none"
    /\ \E la \in SpatialRangeValues, lo \in SpatialRangeValues :
           /\ op' = "estimate_spatial_points"
           /\ args' = <<la, lo>>
           /\ ret' = estimate_spatial_points(la, lo)
    /\ UNCHANGED <<tool_name, request, tool_input, result, calls, locals, sessions, chat>>

\* a call of suggest_alternatives
SuggestAlternatives ==
    /\ op = "none"
    /\ \E sh \in AlternativeShapes :
           /\ op' = "suggest_alternatives"
           /\ args' = sh
           /\ ret' = suggest_alternatives(sh[1], sh[2], sh[3], TestParameters[1],
                                           TestParameters[2], TestParameters[3])
    /\ UNCHANGED <<tool_name, request, tool_input, result, calls, locals, sessions, chat>>

\* a call of is_query_too_large
IsQueryTooLarge ==
    /\ op = "none"
    /\ \E t \in TimePointValues, la \in LatPointValues, lo \in LonPointValues :
           \E c \in ConversationTokens(t, la, lo) :
               /\ op' = "is_query_too_large"
               /\ args' = <<t, la, lo, c>>
               /\ ret' = is_query_too_large(t, la, lo, c)
    /\ UNCHANGED <<tool_name, request, tool_input, result, calls, locals, sessions, chat>>

\* the caller consumes the result; nothing of the call is kept
Return ==
    /\ op # "none"
    /\ op' = "none"
    /\ tool_name' = ""
    /\ request' = NoDict
    /\ tool_input' = NoDict
    /\ result' = None
    /\ calls' = <<>>
    /\ locals' = NoLocals
    /\ args' = <<>>
    /\ ret' = None
    /\ UNCHANGED <<sessions, chat>>

Next ==
    \/ QueryMcpTool
    \/ CheckQuerySize
    \/ ParseTimeRange
    \/ EstimateQueryTokens
    \/ EstimateSpatialPoints
    \/ IsQueryTooLarge
    \/ SuggestAlternatives
    \/ Return

Spec == Init /\ [][Next]_vars

\* ---------------------------------------------------------------------------
\* The guard invoked from several chat sessions, one statement group at a time
\* ---------------------------------------------------------------------------

SessionIds == 1..MaxSessions

\* the running conversation sizes of the sessions (usage.input_tokens)
SessionTokens == {0, 65000}

MixedSignRequest ==
    ToolInput(YM(2020, 1), YM(2020, 12), PyList(<<Deg(10), Deg(20)>>),
              PyList(<<Deg(-10), Deg(30)>>), AMON)

SessionRequests ==
    {SmallRegionalRequest, UnconstrainedRequest, MixedSignRequest,
     ToolInput(YM(2020, 1), YM(2020, 12), PyList(<<Deg(10), Deg(20)>>),
               PyList(<<Deg(10), Deg(400)>>), AMON),
     ToolInput(YM(2020, 1), YM(2020, 12), PyList(<<Deg(20), Deg(10)>>),
               PyList(<<Deg(-10), Deg(30)>>), AMON),
     ToolInput(None, None, PyList(<<Deg(-90), Deg(90)>>),
               PyList(<<Deg(-140), Deg(-50)>>), Absent)}

\* the frame of one invocation: the session's figure, the dict as built, the
\* dict object the invocation holds, its locals and the value it returns
IdleFrame ==
    [pc |-> "idle", tokens |-> 0, request |-> NoDict, tool_input |-> NoDict,
     shape |-> NoLocals, ret |-> None]

\* mutant: every session's tool call holds one and the same dict
OwnRequest_Shared(s) == 1

\* the dict an invocation writes to: the input of its own tool_use block
OwnRequest(s) == s

InitSessions ==
    /\ op = "none"
    /\ tool_name = ""
    /\ request = NoDict
    /\ tool_input = NoDict
    /\ result = None
    /\ calls = <<>>
    /\ locals = NoLocals
    /\ args = <<>>
    /\ ret = None
    /\ sessions = [s \in SessionIds |-> IdleFrame]
    /\ chat = NoChat

CallVars == <<op, tool_name, request, tool_input, result, calls, locals, args, ret>>

\* a session calls the guard on the input of a tool_use block
Invoke ==
    /\ \E s \in SessionIds, input \in SessionRequests, tokens \in SessionTokens :
           /\ sessions[s].pc = "idle"
           /\ sessions' = [sessions EXCEPT ![s] =
                  [pc |-> "latitude", tokens |-> tokens, request |-> input,
                   tool_input |-> input, shape |-> NoLocals, ret |-> None]]
    /\ UNCHANGED <<CallVars, chat>>

\* lines 180-194
ValidateLatitude ==
    /\ \E s \in SessionIds :
           /\ sessions[s].pc = "latitude"
           /\ \E lat_range \in {Get(sessions[s].request, "lat_range", None)} :
                  sessions' = [sessions EXCEPT ![s] =
                      IF lat_range # None
                         /\ (LatitudeOutOfBounds(lat_range) \/ LatitudeNotIncreasing(lat_range))
                      THEN [@ EXCEPT !.pc = "returned", !.ret = LatitudeError(lat_range)]
                      ELSE [@ EXCEPT !.pc = "longitude"]]
    /\ UNCHANGED <<CallVars, chat>>

\* lines 196-218
NormalizeLongitude ==
    /\ \E s \in SessionIds :
           /\ sessions[s].pc = "longitude"
           /\ \E lon_range \in {Get(sessions[s].request, "lon_range", None)} :
                  IF lon_range = None
                  THEN sessions' = [sessions EXCEPT ![s].pc = "dimensions"]
                  ELSE \E converted \in {ConvertLongitude(lon_range)} :
                         \E stored \in {[sessions EXCEPT ![OwnRequest(s)].tool_input =
                                             StoreLonRange(@, converted)]} :
                             sessions' = [stored EXCEPT ![s] =
                                 IF LongitudeOutOfBounds(converted)
                                 THEN [@ EXCEPT !.pc = "returned",
                                                !.ret = LongitudeError(converted)]
                                 ELSE [@ EXCEPT !.pc = "dimensions"]]
    /\ UNCHANGED <<CallVars, chat>>

\* lines 224-226
CalculateDimensions ==
    /\ \E s \in SessionIds :
           /\ sessions[s].pc = "dimensions"
           /\ sessions' = [sessions EXCEPT ![s] =
                  [@ EXCEPT !.pc = "decision", !.shape = ResolveShape(sessions[s].request)]]
    /\ UNCHANGED <<CallVars, chat>>

\* lines 228-266
DecideAdmission ==
    /\ \E s \in SessionIds :
           /\ sessions[s].pc = "decision"
           /\ \E d \in {is_query_too_large(sessions[s].shape.time_points,
                                             sessions[s].shape.lat_points,
                                             sessions[s].shape.lon_points,
                                             GUARD_CONVERSATION_TOKENS)} :
                  sessions' = [sessions EXCEPT ![s] =
                      [@ EXCEPT !.pc = "returned",
                                !.ret = SizeOutcome(sessions[s].shape, d,
                                                    sessions[s].tool_input).ret]]
    /\ UNCHANGED <<CallVars, chat>>

\* the caller has used the result; the session may call the guard again
Resume ==
    /\ \E s \in SessionIds :
           /\ sessions[s].pc = "returned"
           /\ sessions' = [sessions EXCEPT ![s] = IdleFrame]
    /\ UNCHANGED <<CallVars, chat>>

NextSessions ==
    \/ Invoke
    \/ ValidateLatitude
    \/ NormalizeLongitude
    \/ CalculateDimensions
    \/ DecideAdmission
    \/ Resume

SpecSessions == InitSessions /\ [][NextSessions]_vars

\* ---------------------------------------------------------------------------
\* The chat handler: one user turn and its tool execution loop
\* ---------------------------------------------------------------------------

\* user turns of one chat session
MaxTurns == 1

max_tool_iterations == 10

\* what the server makes of a tool call
ServerOutcomes == {"ok", "error", "too_large", "latitude", "longitude"}

\* the error texts a result can carry, with the kinds that occur in each
ErrorTexts ==
    {<<"Query too large - response would exceed token limits", "Query too large">>,
     <<"Invalid latitude range", "Invalid latitude range">>,
     <<"Invalid longitude range", "Invalid longitude range">>,
     <<"MCP server error: Query too large", "Query too large">>,
     <<"MCP server error: Invalid latitude range", "Invalid latitude range">>,
     <<"MCP server error: Invalid longitude range", "Invalid longitude range">>}

\* fragment in text
Contains(text, fragment) == <<text, fragment>> \in ErrorTexts

\* mutant: only the size warning stops the loop
StopsExecution_SizeOnly(tool_result) ==
    /\ Get(tool_result, "status", "") # "ok"
    /\ Contains(Get(tool_result, "error", ""), "Query too large")

\* the test that sets size_warning_encountered: lines 365-377
StopsExecution(tool_result) ==
    /\ Get(tool_result, "status", "") # "ok"
    /\ \/ Contains(Get(tool_result, "error", ""), "Query too large")
       \/ Contains(Get(tool_result, "error", ""), "Invalid latitude range")
       \/ Contains(Get(tool_result, "error", ""), "Invalid longitude range")

\* the tool_use blocks of an assistant message
QueryBlock == [name |-> "query_netcdf_data", input |-> UnconstrainedRequest]
BrowseBlock == [name |-> "browse_spear_directory", input |-> NoDict]

\* replies of the LLM: the stop reason and the tool_use blocks of the content
Replies ==
    {[stop_reason |-> "end_turn", content |-> <<>>],
     [stop_reason |-> "tool_use", content |-> <<QueryBlock>>],
     [stop_reason |-> "tool_use", content |-> <<QueryBlock, BrowseBlock>>]}

Message(role, content) == [role |-> role, content |-> content]

\* mutant: the loop runs while iteration <= max_tool_iterations
LoopContinues_OneMore(c) ==
    /\ c.stop_reason = "tool_use"
    /\ c.iteration <= max_tool_iterations
    /\ ~c.size_warning_encountered

\* the while condition: line 312
LoopContinues(c) ==
    /\ c.stop_reason = "tool_use"
    /\ c.iteration < max_tool_iterations
    /\ ~c.size_warning_encountered

IdleChat ==
    [pc |-> "idle", turn |-> 0, messages |-> <<>>, turn_start |-> 0,
     stop_reason |-> "", content |-> <<>>, iteration |-> 0,
     size_warning_encountered |-> FALSE, block |-> 0, tool_results |-> <<>>]

InitChat ==
    /\ op = "none"
    /\ tool_name = ""
    /\ request = NoDict
    /\ tool_input = NoDict
    /\ result = None
    /\ calls = <<>>
    /\ locals = NoLocals
    /\ args = <<>>
    /\ ret = None
    /\ sessions = NoSessions
    /\ chat = IdleChat

\* lines 249-267: the prompt, and the retrieved context when there is one
UserPrompt ==
    /\ chat.pc \in {"idle", "done"}
    /\ chat.turn < MaxTurns
    /\ \E rag_context \in BOOLEAN :
           chat' = [chat EXCEPT
               !.pc = "phase1",
               !.turn = @ + 1,
               !.turn_start = Len(chat.messages),
               !.messages = @ \o <<Message("user", "prompt")>>
                              \o (IF rag_context
                                  THEN <<Message("system", "rag_context")>> ELSE <<>>),
               !.stop_reason = "", !.content = <<>>, !.iteration = 0,
               !.size_warning_encountered = FALSE, !.block = 0,
               !.tool_results = <<>>]
    /\ UNCHANGED <<CallVars, sessions>>

\* the except clause, lines 493-497
RequestFailed(c) ==
    [c EXCEPT !.pc = "done",
              !.messages = @ \o <<Message("assistant", "error_msg")>>]

\* lines 274-314 and 486-491: the first reply
InitialResponse ==
    /\ chat.pc = "phase1"
    /\ \/ chat' = RequestFailed(chat)
       \/ \E final_msg \in Replies :
              chat' = IF final_msg.stop_reason = "tool_use"
                      THEN [chat EXCEPT !.pc = "while",
                                        !.stop_reason = final_msg.stop_reason,
                                        !.content = final_msg.content,
                                        !.iteration = 0,
                                        !.size_warning_encountered = FALSE]
                      ELSE [chat EXCEPT !.pc = "done",
                                        !.stop_reason = final_msg.stop_reason,
                                        !.messages =
                                            @ \o <<Message("assistant", "full_resp")>>]
    /\ UNCHANGED <<CallVars, sessions>>

\* lines 312-314: the loop test and the head of an iteration
WhileTest ==
    /\ chat.pc = "while"
    /\ chat' = IF LoopContinues(chat)
               THEN [chat EXCEPT !.pc = "for", !.iteration = @ + 1,
                                 !.tool_results = <<>>, !.block = 1]
               ELSE [chat EXCEPT !.pc = "after"]
    /\ UNCHANGED <<CallVars, sessions>>

\* lines 317-424: one tool_use block of current_msg.content
ExecuteTool ==
    /\ chat.pc = "for"
    /\ chat.block <= Len(chat.content)
    /\ \E outcome \in ServerOutcomes :
           \E r \in {query_mcp_tool_async(chat.content[chat.block].name,
                                           chat.content[chat.block].input,
                                           outcome).result} :
               chat' = [chat EXCEPT
                   !.size_warning_encountered = @ \/ StopsExecution(r),
                   !.tool_results = Append(@, r),
                   !.block = @ + 1]
    /\ UNCHANGED <<CallVars, sessions>>

\* lines 426-453: after the for loop
AfterBlocks ==
    /\ chat.pc = "for"
    /\ chat.block > Len(chat.content)
    /\ chat' = IF chat.size_warning_encountered
               THEN [chat EXCEPT
                        !.pc = "after",
                        !.messages = @ \o <<Message("assistant", "current_display")>>]
               ELSE [chat EXCEPT
                        !.pc = "followup",
                        !.messages = @ \o <<Message("assistant", "tool_use"),
                                            Message("user", "tool_results")>>]
    /\ UNCHANGED <<CallVars, sessions>>

\* lines 455-473: the follow-up request
FollowUp ==
    /\ chat.pc = "followup"
    /\ \/ chat' = RequestFailed(chat)
       \/ \E current_msg \in Replies :
              chat' = [chat EXCEPT !.pc = "while",
                                   !.stop_reason = current_msg.stop_reason,
                                   !.content = current_msg.content]
    /\ UNCHANGED <<CallVars, sessions>>

\* lines 475-486: after the loop
FinalResponse ==
    /\ chat.pc = "after"
    /\ chat' = [chat EXCEPT !.pc = "done",
                            !.messages = @ \o <<Message("assistant", "full_resp")>>]
    /\ UNCHANGED <<CallVars, sessions>>

NextChat ==
    \/ UserPrompt
    \/ InitialResponse
    \/ WhileTest
    \/ ExecuteTool
    \/ AfterBlocks
    \/ FollowUp
    \/ FinalResponse

SpecChat == InitChat /\ [][NextChat]_vars

\* the handler runs to its end once started: no step waits on another session
SpecChatFair == SpecChat /\ WF_vars(NextChat)

\* ---------------------------------------------------------------------------
\* Properties
\* ---------------------------------------------------------------------------

Range(seq) == {seq[i] : i \in 1..Len(seq)}
FetchCalls == {"call_mcp_server", "tool_func"}
GuardCall == "check_query_size_before_execution"

\* C1: every query_netcdf_data call dispatched through query_mcp_tool runs the
\* size guard before the data fetch, and a request the guard denies is never
\* fetched.
C1_GuardPrecedesFetch ==
    (op = "query_mcp_tool" /\ tool_name = "query_netcdf_data") =>
        /\ GuardCall \in Range(calls)
        /\ \A i \in 1..Len(calls) :
               calls[i] \in FetchCalls => \E j \in 1..(i - 1) : calls[j] = GuardCall
        /\ check_query_size_before_execution(request).ret # None =>
               Range(calls) \cap FetchCalls = {}

\* C2: is_query_too_large denies exactly when conversation + estimate + reserve
\* is strictly above the safe threshold (a total equal to the threshold is
\* allowed), and the estimate it returns is the size estimator's.
C2_DeniesIffAboveThreshold ==
    op = "is_query_too_large" =>
        /\ ret.is_too_large <=> (args[4] + ret.estimated_tokens + 30000 > 100000)
        /\ ret.estimated_tokens = estimate_query_tokens(args[1], args[2], args[3])

C2_Witness_AtThreshold ==
    /\ op = "is_query_too_large"
    /\ args[4] + ret.estimated_tokens + 30000 = 100000
    /\ ~ret.is_too_large

\* C3: for a non-negative shape, estimate_query_tokens is
\* floor((floor(raw_bytes * 2.5) + 5000) / 3) with raw_bytes = 4 * t * lat * lon,
\* which is floor((10 * t * lat * lon + 5000) / 3).
C3_EstimateFormula ==
    op = "estimate_query_tokens" =>
        LET points == args[1] * args[2] * args[3]
            raw_bytes == points * 4
            json_bytes == (2 * raw_bytes + raw_bytes \div 2) + 5000
        IN /\ ret.val = json_bytes \div 3
           /\ ret.val = (10 * points + 5000) \div 3

C3_Witness_SmallQuery ==
    /\ op = "estimate_query_tokens"
    /\ args = <<12, 10, 10>>
    /\ ret.val = 5666

\* C4: the estimate is non-decreasing in each of time_points, lat_points and
\* lon_points when the other two are held fixed.
C4_Monotone ==
    op = "estimate_query_tokens" =>
        /\ \A t \in TimePointValues :
               t >= args[1] => estimate_query_tokens(t, args[2], args[3]) >= ret.val
        /\ \A la \in LatPointValues :
               la >= args[2] => estimate_query_tokens(args[1], la, args[3]) >= ret.val
        /\ \A lo \in LonPointValues :
               lo >= args[3] => estimate_query_tokens(args[1], args[2], lo) >= ret.val

C4_Witness_LargerShape ==
    /\ op = "estimate_query_tokens"
    /\ args = <<12, 10, 10>>
    /\ \E t \in TimePointValues :
           t > args[1] /\ estimate_query_tokens(t, args[2], args[3]) > ret.val

\* the request with both date bounds set to None
WithoutDates(req) ==
    ("start_date" :> None) @@ ("end_date" :> None) @@ req

\* calendar years and days the date texts of the properties are drawn over
CalendarYears == {SpanFirstYear, 2020, 2021, SpanLastYear}
CalendarDays == {1, 28, 31}
ValidDay(m, d) == d <= (IF m = 2 THEN 28 ELSE IF m \in {4, 6, 9, 11} THEN 30 ELSE 31)

\* the calendar texts in both forms, each with the year and month it writes
DateTable ==
    {[text |-> YM(y, m), form |-> "YYYY-MM", year |-> y, month |-> m] :
        y \in CalendarYears, m \in 1..12}
    \cup {[text |-> YMD(c[1], c[2], c[3]), form |-> "YYYY-MM-DD",
           year |-> c[1], month |-> c[2]] :
        c \in {x \in CalendarYears \X (1..12) \X CalendarDays : ValidDay(x[2], x[3])}}

Written(x) == {a \in DateTable : a.text = x}

\* both dates of the request are calendar texts of one form, start not after
\* end, inside the supported span 1850-01 .. 2100-12
ConcreteDatesInSpan(req) ==
    \E a \in Written(Get(req, "start_date", None)),
       b \in Written(Get(req, "end_date", None)) :
        /\ a.form = b.form
        /\ a.year >= SpanFirstYear /\ b.year <= SpanLastYear
        /\ a.year * 12 + a.month <= b.year * 12 + b.month

\* C5: with both dates None the guard estimates at least as many tokens as for
\* the same request with any concrete start <= end pair inside the span.
C5_DefaultIsWorstCase ==
    (/\ op = "check_query_size_before_execution"
     /\ locals.estimated
     /\ ConcreteDatesInSpan(request)
     /\ Fits(WithoutDates(request))) =>
        LET g == check_query_size_before_execution(WithoutDates(request))
        IN g.locals.estimated /\ g.locals.estimated_tokens >= locals.estimated_tokens

C5_Witness_FullSpanDaily ==
    /\ op = "check_query_size_before_execution"
    /\ locals.estimated
    /\ Get(request, "start_date", None) = YMD(SpanFirstYear, 1, 1)
    /\ Get(request, "end_date", None) = YMD(SpanLastYear, 12, 31)
    /\ Get(request, "frequency", AMON) = DAY
    /\ locals.time_points = 90360
    /\ Fits(WithoutDates(request))

\* a bound that is not given: None or the empty text
NotGiven(x) == x = None \/ x = EmptyText

\* C6: a missing start or end bound (either or both) yields the worst-case
\* count over 251 years, 251*12 for monthly and unrecognised frequencies and
\* 251*365 for daily, never zero.
C6_MissingBoundIsWorstCase ==
    (op = "parse_time_range" /\ (NotGiven(args[1]) \/ NotGiven(args[2]))) =>
        /\ ret.val = (IF args[3] = DAY THEN 91615 ELSE 3012)
        /\ ret.val # 0

C6_Witness_OnlyStartGiven ==
    /\ op = "parse_time_range"
    /\ args[1] = YM(2020, 1)
    /\ args[2] = None
    /\ args[3] = DAY
    /\ ret.val = 91615

\* C7: two dates in the same form that parse yield the inclusive month count
\* (end.year-start.year)*12 + (end.month-start.month) + 1, times 30 for daily
\* frequency; one month yields 1 and a 24-month daily span yields 720.
C7_InclusiveMonthCount ==
    op = "parse_time_range" =>
        /\ \A a \in Written(args[1]), b \in Written(args[2]) :
               a.form = b.form =>
                   LET months == (b.year - a.year) * 12 + (b.month - a.month) + 1
                   IN ret.val = (IF args[3] = DAY THEN months * 30 ELSE months)
        /\ (args[1] = YM(2020, 1) /\ args[2] = YM(2020, 1) /\ args[3] # DAY) =>
               ret.val = 1
        /\ args = <<YMD(2020, 1, 1), YMD(2021, 12, 31), DAY>> => ret.val = 720

C7_Witness_DailyTwoYears ==
    /\ op = "parse_time_range"
    /\ args = <<YMD(2020, 1, 1), YMD(2021, 12, 31), DAY>>
    /\ ret.val = 720

\* C8: every shape the guard resolves has non-negative time_points,
\* lat_points and lon_points, also when end_date is before start_date.
C8_ShapeNonNegative ==
    (op = "check_query_size_before_execution" /\ locals.estimated) =>
        /\ locals.time_points >= 0
        /\ locals.lat_points >= 0
        /\ locals.lon_points >= 0

\* texts and values that are given but are no date in either form
Unparseable == {PyInt(2020), BadMonthText, YearZeroText, WordsText, YMD(2021, 2, 29)}
IsYM(x) == \E a \in Written(x) : a.form = "YYYY-MM"
IsYMD(x) == \E a \in Written(x) : a.form = "YYYY-MM-DD"
Given(x) == ~NotGiven(x) /\ x # PyInt(0)
FailsToParse(s, e) ==
    /\ Given(s) /\ Given(e)
    /\ \/ s \in Unparseable
       \/ e \in Unparseable
       \/ IsYM(s) /\ IsYMD(e)
       \/ IsYMD(s) /\ IsYM(e)

\* C9: when both dates are given and parsing fails (malformed text, mixed
\* forms, a non-string value) parse_time_range returns the fallback 1000
\* whatever the frequency, and the guard still performs the size check.
C9_ParseFailureFallsBack ==
    /\ (op = "parse_time_range" /\ FailsToParse(args[1], args[2])) => ret.val = 1000
    /\ (/\ op = "check_query_size_before_execution"
        /\ FailsToParse(Get(request, "start_date", None), Get(request, "end_date", None))
        /\ (result = None \/ result.error \notin
                {"Invalid latitude range", "Invalid longitude range"})) =>
           locals.estimated /\ locals.time_points = 1000

C9_Witness_BadMonthDaily ==
    /\ op = "parse_time_range"
    /\ args = <<BadMonthText, YM(2020, 12), DAY>>
    /\ ret.val = 1000

\* C10: on a date parse failure the time-point count used is at least the
\* count for missing bounds at the same frequency (the worst case).
C10_FallbackIsWorstCase ==
    (op = "parse_time_range" /\ FailsToParse(args[1], args[2])) =>
        ret.val >= (IF args[3] = DAY THEN 91615 ELSE 3012)

\* n is max(1, floor(|r[1] - r[0]|)) at one grid cell per degree
WholeDegreesOf(r, n) ==
    LET span == Abs(r.v[2] - r.v[1])
    IN IF span < Deg(1) THEN n = 1
       ELSE Deg(n) <= span /\ span < Deg(n + 1)

\* C11: with both ranges given estimate_spatial_points returns
\* max(1, floor(|range[1] - range[0]|)) for each axis; with either range absent
\* it returns the global grid (180, 360) whatever the other range is.
C11_SpatialPoints ==
    op = "estimate_spatial_points" =>
        IF args[1] = None \/ args[2] = None
        THEN ret = <<180, 360>>
        ELSE WholeDegreesOf(args[1], ret[1]) /\ WholeDegreesOf(args[2], ret[2])

C11_Witness_NarrowLatitude ==
    /\ op = "estimate_spatial_points"
    /\ args = <<PyList(<<Deg(10), Deg(10)>>), PyList(<<Deg(-140), Deg(-50)>>)>>
    /\ ret = <<1, 90>>

\* the input constraint: a range is absent or a two-element sequence
MeetsInputConstraints(req) ==
    \A key \in {"lat_range", "lon_range"} :
        Get(req, key, None) = None \/ Len(req[key].v) = 2

\* the guard has run on a request that meets the input constraints and gives
\* this key
GuardRanOn(key) ==
    /\ op = "check_query_size_before_execution"
    /\ MeetsInputConstraints(request)
    /\ Get(request, key, None) # None

Failed(kind) == "error" \in DOMAIN result /\ result.error = kind

\* C12: with lat_range given the guard fails with 'Invalid latitude range'
\* exactly when min_lat < -90 or max_lat > 90 or min_lat >= max_lat, the failure
\* shows the range given, and a request that passes has
\* -90 <= min_lat < max_lat <= 90.
C12_LatitudeFailure ==
    GuardRanOn("lat_range") =>
        LET lat == request["lat_range"].v
            bad == lat[1] < -90 * Scale \/ lat[2] > 90 * Scale \/ lat[1] >= lat[2]
        IN /\ Failed("Invalid latitude range") <=> bad
           /\ Failed("Invalid latitude range") => result.shown = lat
           /\ ~Failed("Invalid latitude range") =>
                  (-90 * Scale <= lat[1] /\ lat[1] < lat[2] /\ lat[2] <= 90 * Scale)

C12_Witness_ZeroHeight ==
    /\ GuardRanOn("lat_range")
    /\ request["lat_range"] = PyList(<<Deg(10), Deg(10)>>)
    /\ Failed("Invalid latitude range")
    /\ result.shown = <<Deg(10), Deg(10)>>

\* the request passed latitude validation and gives lon_range
PastLatitude == GuardRanOn("lon_range") /\ ~Failed("Invalid latitude range")

\* one endpoint after the +360 shift of a negative value
Shifted(x) == IF x < 0 THEN x + 360 * Scale ELSE x

\* C13: each negative endpoint of lon_range is shifted by +360 and each
\* non-negative endpoint is left as is, one independently of the other;
\* [-140, -50] becomes [220, 310] with no longitude failure.
C13_LongitudeShift ==
    PastLatitude =>
        /\ \A i \in 1..2 :
               tool_input["lon_range"].v[i] = Shifted(request["lon_range"].v[i])
        /\ request["lon_range"] = PyList(<<Deg(-140), Deg(-50)>>) =>
               /\ tool_input["lon_range"] = PyList(<<Deg(220), Deg(310)>>)
               /\ ~Failed("Invalid longitude range")

C13_Witness_WesternRange ==
    /\ PastLatitude
    /\ request["lon_range"] = PyList(<<Deg(-140), Deg(-50)>>)
    /\ tool_input["lon_range"] = PyList(<<Deg(220), Deg(310)>>)
    /\ result = None

\* C14: when lon_range is given and the guard does not fail with 'Invalid
\* longitude range', both endpoints of the lon_range left in the request lie
\* in [0, 360].
C14_NormalizedWithinBounds ==
    (PastLatitude /\ ~Failed("Invalid longitude range")) =>
        \A i \in 1..2 :
            /\ tool_input["lon_range"].v[i] >= 0
            /\ tool_input["lon_range"].v[i] <= 360 * Scale

\* C15: after conversion the guard fails with 'Invalid longitude range'
\* exactly when a converted endpoint exceeds 360, the failure shows the
\* converted values, and a request with a bad latitude range gets the latitude
\* failure, never the longitude one.
C15_LongitudeFailure ==
    GuardRanOn("lon_range") =>
        LET lon == request["lon_range"].v
            over == Shifted(lon[1]) > 360 * Scale \/ Shifted(lon[2]) > 360 * Scale
        IN /\ PastLatitude =>
                  /\ Failed("Invalid longitude range") <=> over
                  /\ Failed("Invalid longitude range") =>
                         result.shown = <<Shifted(lon[1]), Shifted(lon[2])>>
           /\ Failed("Invalid latitude range") => result.error # "Invalid longitude range"
           /\ (/\ GuardRanOn("lat_range")
               /\ request["lat_range"].v[1] >= request["lat_range"].v[2]) =>
                  Failed("Invalid latitude range")

C15_Witness_ConvertedShown ==
    /\ PastLatitude
    /\ request["lon_range"] = PyList(<<Deg(-10), Deg(400)>>)
    /\ Failed("Invalid longitude range")
    /\ result.shown = <<Deg(350), Deg(400)>>

\* both endpoints of the range lie in [0, 360]
Unsigned(lon_range) ==
    \A i \in 1..2 : lon_range.v[i] >= 0 /\ lon_range.v[i] <= 360 * Scale

\* C16: a lon_range with both ends already in [0, 360] is left with the same
\* two values, and running the guard again on the request it left changes
\* nothing further.
C16_NormalizationIdempotent ==
    /\ (GuardRanOn("lon_range") /\ Unsigned(request["lon_range"])) =>
           /\ tool_input["lon_range"].v = request["lon_range"].v
           /\ tool_input = request
    /\ (GuardRanOn("lon_range") /\ Unsigned(tool_input["lon_range"])
            /\ Fits(tool_input)) =>
           check_query_size_before_execution(tool_input).tool_input = tool_input

C16_Witness_FullCircle ==
    /\ PastLatitude
    /\ request["lon_range"] = PyList(<<Deg(0), Deg(360)>>)
    /\ tool_input["lon_range"] = PyList(<<Deg(0), Deg(360)>>)
    /\ locals.estimated

\* C17: the lon_points of the size estimate is computed from the normalised
\* lon_range left in the request, not from the signed range the caller gave.
C17_PointsFromNormalized ==
    (PastLatitude /\ GuardRanOn("lat_range") /\ locals.estimated) =>
        WholeDegreesOf(tool_input["lon_range"], locals.lon_points)

\* C18: when lon_range is given and latitude validation passes, the request
\* holds the converted pair in lon_range after the guard returns, whatever the
\* outcome, and no other field of it has changed.
C18_OnlyLongitudeRewritten ==
    PastLatitude =>
        /\ DOMAIN tool_input = DOMAIN request
        /\ tool_input["lon_range"] =
               PyList(<<Shifted(request["lon_range"].v[1]),
                        Shifted(request["lon_range"].v[2])>>)
        /\ \A k \in DOMAIN request \ {"lon_range"} : tool_input[k] = request[k]

C18_Witness_RewrittenOnFailure ==
    /\ PastLatitude
    /\ Failed("Invalid longitude range")
    /\ request["lon_range"] = PyList(<<Deg(-10), Deg(400)>>)
    /\ tool_input["lon_range"] = PyList(<<Deg(350), Deg(400)>>)
    /\ "variable" \in DOMAIN tool_input /\ "start_date" \in DOMAIN tool_input

\* the approaches in the order of priority
PriorityOrder ==
    <<"Reduce time range", "Reduce spatial coverage", "Request spatial average",
      "Use monthly averages instead of daily", "Download data programmatically">>

Priority(approach) == CHOOSE i \in 1..Len(PriorityOrder) : PriorityOrder[i] = approach

\* the alternatives are distinct known approaches in priority order, the
\* spatial average is among them and programmatic access with 0 tokens is last
InPriorityOrder(alternatives) ==
    /\ \A i \in 1..Len(alternatives) : alternatives[i].approach \in Range(PriorityOrder)
    /\ \A i, j \in 1..Len(alternatives) :
           i < j => Priority(alternatives[i].approach) < Priority(alternatives[j].approach)
    /\ \E i \in 1..Len(alternatives) : alternatives[i].approach = "Request spatial average"
    /\ Len(alternatives) >= 1
    /\ alternatives[Len(alternatives)].approach = "Download data programmatically"
    /\ alternatives[Len(alternatives)].estimated_tokens = 0

\* C19: the alternatives come in the fixed priority order (time range, spatial
\* coverage, spatial average, coarser frequency, programmatic access)
\* restricted to those offered; the spatial average is always there; the last
\* is programmatic access with estimated_tokens 0; the denied global 80-year
\* monthly query (960 x 180 x 360) gets 'Reduce time range' first.
C19_AlternativesInPriorityOrder ==
    /\ op = "suggest_alternatives" =>
           /\ InPriorityOrder(ret.alternatives)
           /\ args = <<960, 180, 360>> =>
                  /\ is_query_too_large(960, 180, 360, 15000).is_too_large
                  /\ ret.alternatives[1].approach = "Reduce time range"
    /\ (op = "check_query_size_before_execution"
            /\ Failed("Query too large - response would exceed token limits")) =>
           InPriorityOrder(result.suggestions.alternatives)

C19_Witness_GlobalMonthly ==
    /\ op = "suggest_alternatives"
    /\ args = <<960, 180, 360>>
    /\ Len(ret.alternatives) = 5
    /\ ret.alternatives[1].approach = "Reduce time range"
    /\ ret.alternatives[2].approach = "Reduce spatial coverage"

\* the entries of the alternatives with this approach
Offered(alternatives, approach) ==
    {alternatives[i] : i \in {j \in 1..Len(alternatives) :
                                   alternatives[j].approach = approach}}

AtLeast(floor, n) == IF n >= floor THEN n ELSE floor

\* C20: 'Reduce time range' is offered exactly when time_points > 12 and
\* proposes max(12, time_points // 2) steps; 'Reduce spatial coverage' exactly
\* when lat_points > 10 or lon_points > 10 and proposes max(5, lat_points // 2)
\* by max(5, lon_points // 2); the coarser frequency exactly when
\* time_points > 365 and proposes time_points // 30 steps.
C20_AlternativeConditions ==
    op = "suggest_alternatives" =>
        LET t == args[1]
            la == args[2]
            lo == args[3]
            time == Offered(ret.alternatives, "Reduce time range")
            space == Offered(ret.alternatives, "Reduce spatial coverage")
            monthly == Offered(ret.alternatives, "Use monthly averages instead of daily")
        IN /\ time # {} <=> t > 12
           /\ \A a \in time : a.description[1] = AtLeast(12, t \div 2)
           /\ space # {} <=> (la > 10 \/ lo > 10)
           /\ \A a \in space :
                  /\ a.description[1] = AtLeast(5, la \div 2)
                  /\ a.description[2] = AtLeast(5, lo \div 2)
           /\ monthly # {} <=> t > 365
           /\ \A a \in monthly : a.description[1] = t \div 30

C20_Witness_AllOffered ==
    /\ op = "suggest_alternatives"
    /\ args = <<366, 11, 10>>
    /\ \E a \in Offered(ret.alternatives, "Reduce time range") : a.description[1] = 183
    /\ \E a \in Offered(ret.alternatives, "Reduce spatial coverage") :
           a.description[1] = 5 /\ a.description[2] = 5
    /\ \E a \in Offered(ret.alternatives, "Use monthly averages instead of daily") :
           a.description[1] = 12

\* C21: each alternative's estimated_tokens is estimate_query_tokens applied to
\* the shape it proposes: (reduced_time, lat, lon), (time, reduced_lat,
\* reduced_lon), (time, 1, 1) for the spatial average and (time // 30, lat, lon).
C21_AlternativesReestimated ==
    op = "suggest_alternatives" =>
        LET t == args[1]
            la == args[2]
            lo == args[3]
        IN /\ \A a \in Offered(ret.alternatives, "Reduce time range") :
                  a.estimated_tokens = estimate_query_tokens(a.description[1], la, lo)
           /\ \A a \in Offered(ret.alternatives, "Reduce spatial coverage") :
                  a.estimated_tokens =
                      estimate_query_tokens(t, a.description[1], a.description[2])
           /\ \A a \in Offered(ret.alternatives, "Request spatial average") :
                  a.estimated_tokens = estimate_query_tokens(t, 1, 1)
           /\ \A a \in Offered(ret.alternatives, "Use monthly averages instead of daily") :
                  a.estimated_tokens = estimate_query_tokens(t \div 30, la, lo)

TooLarge == "Query too large - response would exceed token limits"

\* the guard returned for a request that passed coordinate validation
PastValidation ==
    /\ op = "check_query_size_before_execution"
    /\ MeetsInputConstraints(request)
    /\ ~Failed("Invalid latitude range")
    /\ ~Failed("Invalid longitude range")

\* C22: for a request past coordinate validation the guard returns no error
\* exactly when the admission rule allows the shape resolved from it; the
\* 2020-01..2020-12 monthly query over lat [10,20], lon [10,20] resolves to
\* 12 x 10 x 10 and is allowed; the query with no dates and no ranges resolves
\* to 251*12 x 180 x 360 and is denied, with 'Reduce time range' and 'Reduce
\* spatial coverage' among its alternatives and a data shape whose total is
\* the product of the three counts.
C22_GuardFollowsAdmissionRule ==
    PastValidation =>
        LET points == locals.time_points * locals.lat_points * locals.lon_points
            total == 15000 + (10 * points + 5000) \div 3 + 30000
        IN /\ locals.estimated
           /\ result = None <=> ~(total > 100000)
           /\ result # None => Failed(TooLarge)
           /\ request = SmallRegionalRequest =>
                  /\ <<locals.time_points, locals.lat_points, locals.lon_points>>
                         = <<12, 10, 10>>
                  /\ result = None
           /\ request = UnconstrainedRequest =>
                  /\ <<locals.time_points, locals.lat_points, locals.lon_points>>
                         = <<251 * 12, 180, 360>>
                  /\ Failed(TooLarge)
                  /\ Offered(result.suggestions.alternatives, "Reduce time range") # {}
                  /\ Offered(result.suggestions.alternatives, "Reduce spatial coverage") # {}
           /\ Failed(TooLarge) =>
                  /\ result.status = "error"
                  /\ result.data_shape.time_points = locals.time_points
                  /\ result.data_shape.lat_points = locals.lat_points
                  /\ result.data_shape.lon_points = locals.lon_points
                  /\ result.data_shape.total_data_points = points

C22_Witness_UnconstrainedDenied ==
    /\ PastValidation
    /\ request = UnconstrainedRequest
    /\ Failed(TooLarge)
    /\ result.data_shape.total_data_points = 3012 * 180 * 360
    /\ Len(result.suggestions.alternatives) = 5

ErrorKinds == {"Invalid latitude range", "Invalid longitude range", TooLarge}

\* C23: for a request meeting the input constraints the guard never raises;
\* an invalid latitude, an invalid longitude and a query too large are each
\* returned as a result with status 'error', under three pairwise distinct
\* error kinds, each returned only for its own condition.
C23_FailuresAreReturned ==
    (op = "check_query_size_before_execution" /\ MeetsInputConstraints(request)) =>
        /\ result = None \/ (/\ "status" \in DOMAIN result
                              /\ result.status = "error"
                              /\ result.error \in ErrorKinds)
        /\ Cardinality(ErrorKinds) = 3
        /\ Failed("Invalid latitude range") =>
               (/\ Get(request, "lat_range", None) # None
                /\ \/ request["lat_range"].v[1] < -90 * Scale
                   \/ request["lat_range"].v[2] > 90 * Scale
                   \/ request["lat_range"].v[1] >= request["lat_range"].v[2])
        /\ Failed("Invalid longitude range") =>
               (/\ Get(request, "lon_range", None) # None
                /\ \/ Shifted(request["lon_range"].v[1]) > 360 * Scale
                   \/ Shifted(request["lon_range"].v[2]) > 360 * Scale)
        /\ Failed(TooLarge) => (locals.estimated /\ locals.is_too_large)

C23_Witness_LongitudeErrorReturned ==
    /\ op = "check_query_size_before_execution"
    /\ MeetsInputConstraints(request)
    /\ Get(request, "lat_range", None) = PyList(<<Deg(-90), Deg(90)>>)
    /\ Get(request, "lon_range", None) = PyList(<<Deg(10), Deg(400)>>)
    /\ result.status = "error"
    /\ Failed("Invalid longitude range")

\* C30: whenever 'Reduce spatial coverage' is offered, the lat and lon counts
\* it proposes are each no greater than the original ones, and its estimate is
\* no greater than the original query's estimate.
C30_SpatialReductionNoLarger ==
    op = "suggest_alternatives" =>
        \A a \in Offered(ret.alternatives, "Reduce spatial coverage") :
            /\ a.description[1] <= args[2]
            /\ a.description[2] <= args[3]
            /\ a.estimated_tokens <= estimate_query_tokens(args[1], args[2], args[3])

\* session s has returned from the guard, past coordinate validation
Decided(s) ==
    /\ sessions[s].pc = "returned"
    /\ sessions[s].shape # NoLocals

\* C24: the guard decides with the conversation-token figure of the calling
\* session: it denies exactly when caller_tokens + estimated_tokens + reserve
\* exceeds the threshold for that figure.
C24_DecidesWithCallerTokens ==
    \A s \in DOMAIN sessions :
        Decided(s) =>
            LET sh == sessions[s].shape
                estimated == estimate_query_tokens(sh.time_points, sh.lat_points,
                                                   sh.lon_points)
            IN sessions[s].ret # None
                   <=> sessions[s].tokens + estimated + 30000 > 100000

\* C25: under any interleaving of guard invocations from several sessions,
\* each on its own request, every invocation returns the result and leaves
\* its request in the state it does when it runs alone, which depends on its
\* inputs only.
C25_InterleavingInvisible ==
    \A s \in DOMAIN sessions :
        sessions[s].pc = "returned" =>
            LET alone == check_query_size_before_execution(sessions[s].request)
            IN /\ sessions[s].ret = alone.ret
               /\ sessions[s].tool_input = alone.tool_input

C25_Witness_BothMidway ==
    /\ DOMAIN sessions = SessionIds
    /\ sessions[1].pc = "returned"
    /\ sessions[1].request = MixedSignRequest
    /\ sessions[1].tool_input["lon_range"] = PyList(<<Deg(350), Deg(30)>>)
    /\ sessions[2].pc = "dimensions"
    /\ sessions[2].request = MixedSignRequest
    /\ sessions[2].tokens # sessions[1].tokens

\* the result carries one of the three terminal error kinds
CarriesDenialKind(r) ==
    /\ "error" \in DOMAIN r
    /\ \E t \in ErrorTexts :
           /\ t[1] = r.error
           /\ t[2] \in {"Query too large", "Invalid latitude range",
                         "Invalid longitude range"}

\* a tool call of the current assistant message has been denied
DeniedInMessage ==
    /\ chat.pc # "none"
    /\ \E i \in 1..Len(chat.tool_results) : CarriesDenialKind(chat.tool_results[i])

\* the messages the current turn has appended to the history
TurnMessages == SubSeq(chat.messages, chat.turn_start + 1, Len(chat.messages))

CountOf(contents) ==
    Cardinality({i \in 1..Len(TurnMessages) : TurnMessages[i].content \in contents})

C27_LoopBoundedAndEnds ==
    /\ [](chat.pc # "none" => (chat.iteration <= 10 /\ CountOf({"tool_results"}) <= 10))
    /\ ((chat.pc = "phase1") ~> (chat.pc = "done"))

C27_Witness_LimitReached ==
    /\ chat.pc = "done"
    /\ chat.iteration = 10
    /\ chat.stop_reason = "tool_use"
    /\ ~chat.size_warning_encountered
    /\ CountOf({"tool_results"}) = 10

\* C28: once one tool call of an assistant message has been denied, no later
\* tool call of the same message is executed.
C28_NoCallAfterDenial ==
    chat.pc # "none" =>
        \A i, j \in 1..Len(chat.tool_results) :
            i < j => ~CarriesDenialKind(chat.tool_results[i])

\* C29: every user turn appends exactly one final assistant text message to
\* the history, also a turn that ends on a denied tool call.
C29_OneFinalMessage ==
    chat.pc = "done" =>
        CountOf({"full_resp", "current_display", "error_msg"}) = 1

====
